---- MODULE Spec2Model ----
(***************************************************************************)
(* Model of src/app.py: the Streamlit land-use application.                *)
(*                                                                         *)
(* State: the shapefile on disk (DATA_FILE), the PostGIS table             *)
(* (TABLA_POSTGIS), the reachability of the store, the two memoization     *)
(* caches that @st.cache_data keeps for cargar_y_preparar_datos and        *)
(* obtener_datos_filtrados, the session state the sidebar writes, the      *)
(* number of engines created and not disposed, and the outcome of the      *)
(* last operation.                                                         *)
(*                                                                         *)
(* Numbers: superficie_ha carries one decimal place; the model stores it   *)
(* in tenths of a hectare (2.0 ha is 20).  A geometry is a shape           *)
(* identifier with the reference system it is expressed in; the planar     *)
(* area of a shape in SRID_PROYECTO is AreaPlanar.                         *)
(***************************************************************************)
EXTENDS Integers, Sequences, FiniteSets, TLC

VARIABLES
    archivo,          \* DATA_FILE on disk: [estado, feats]
    tabla,            \* TABLA_POSTGIS in the store: [existe, filas]
    storeUp,          \* whether the store answers connections
    cache_prep,       \* st.cache_data of cargar_y_preparar_datos: [lleno, esNone, gdf]
    cache_obt,        \* st.cache_data of obtener_datos_filtrados: arg -> [lleno, frame]
    data_to_display,  \* st.session_state.data_to_display
    current_filter,   \* st.session_state.current_filter
    arg,              \* argument of the last call of obtener_datos_filtrados
    ret,              \* value returned by that call
    engines,          \* engines created by get_db_connection and not yet disposed
    last              \* outcome of the last operation

vars == << archivo, tabla, storeUp, cache_prep, cache_obt, data_to_display,
           current_filter, arg, ret, engines, last >>

----------------------------------------------------------------------------
\* Constants of the program

SRID_PROYECTO == 25830
SRID_MAPA == 4326
HECTARES_PER_SQM == 10000
ZONAS_VERDES == << "Bosques", "Reservas naturales" >>

\* Python's None, as a value no label equals
None == "<None>"

\* Reference system of the shapefile on disk: the OSM extract is in WGS 84 (the
\* code reads it from the file and reprojects whatever it is)
SRID_FUENTE == SRID_MAPA

----------------------------------------------------------------------------
\* Bounds and the inputs drawn within them

\* Largest number of features of a source dataset
MaxFeatures == 3

\* Largest planar area, in square meters, the rounding is checked on
MaxArea == 2500

\* The features a source dataset is drawn from, in file order.  area_src is an
\* area attribute the file itself carries; forma identifies the polygon.
Rasgos ==
    << [fclass |-> "forest",         name |-> "Sierra", area_src |-> 999,
        geometry |-> [forma |-> 1, srid |-> SRID_FUENTE]],
       [fclass |-> "nature_reserve", name |-> "Marisma", area_src |-> 0,
        geometry |-> [forma |-> 2, srid |-> SRID_FUENTE]],
       [fclass |-> "residential",    name |-> "",        area_src |-> 7,
        geometry |-> [forma |-> 3, srid |-> SRID_FUENTE]],
       [fclass |-> "forest",         name |-> "Dehesa",  area_src |-> 3,
        geometry |-> [forma |-> 4, srid |-> SRID_FUENTE]] >>

\* Planar area in square meters of each polygon once in SRID_PROYECTO
AreaPlanar(forma) ==
    CASE forma = 1 -> 20000
      [] forma = 2 -> 15000
      [] forma = 3 -> 5000
      [] OTHER     -> 2500

Min(a, b) == IF a < b THEN a ELSE b

NRasgos == Min(MaxFeatures, Len(Rasgos))

\* The dataset made of the features whose index is in S, in file order
SubDataset(S) ==
    LET F[i \in 0..NRasgos] ==
            IF i = 0 THEN << >>
            ELSE IF i \in S THEN Append(F[i-1], Rasgos[i]) ELSE F[i-1]
    IN F[NRasgos]

\* Every selection of the features
Datasets == { SubDataset(S) : S \in SUBSET (1..NRasgos) }

\* What DATA_FILE can be: absent, present but unreadable, or a dataset
\* (possibly with no feature)
Archivos ==
    { [estado |-> "missing", feats |-> << >>],
      [estado |-> "unreadable", feats |-> << >>] }
    \cup { [estado |-> "ok", feats |-> d] : d \in Datasets }

\* Arguments obtener_datos_filtrados is called with: the ones the sidebar
\* passes, 'Todos' itself, and labels outside the recognized mapping
Args == { None, "Todos", "Bosques", "Reservas naturales", "Parques", "" }

----------------------------------------------------------------------------
\* Frames

\* gpd.GeoDataFrame(): no columns, no rows
GeoDataFrame == [cols |-> FALSE, filas |-> << >>]

\* DataFrame.empty
Empty(frame) == Len(frame.filas) = 0

\* Python truthiness of an optional string
Truthy(s) == s # None /\ s # ""

----------------------------------------------------------------------------
\* cargar_y_preparar_datos

\* round(1) of area / HECTARES_PER_SQM, in tenths of a hectare; halves go to
\* the even tenth as numpy rounds
SuperficieHa(area) ==
    LET n == area * 10
        q == n \div HECTARES_PER_SQM
        r == n % HECTARES_PER_SQM
    IN IF 2 * r < HECTARES_PER_SQM THEN q
       ELSE IF 2 * r > HECTARES_PER_SQM THEN q + 1
       ELSE IF q % 2 = 0 THEN q ELSE q + 1

\* Variant: the area attribute of the file is kept instead of being computed
PrepararConAreaFuente(f) ==
    [fclass |-> f.fclass, name |-> f.name, superficie_ha |-> f.area_src,
     geometry |-> [forma |-> f.geometry.forma, srid |-> SRID_PROYECTO]]

\* gdf[['fclass','name','geometry']].to_crs(SRID_PROYECTO), then superficie_ha
Preparar(f) ==
    LET geom == [forma |-> f.geometry.forma, srid |-> SRID_PROYECTO]
    IN [fclass |-> f.fclass, name |-> f.name,
        superficie_ha |-> SuperficieHa(AreaPlanar(geom.forma)),
        geometry |-> geom]

PrepararTodos(feats) == [i \in 1..Len(feats) |-> Preparar(feats[i])]

\* Body of cargar_y_preparar_datos: [esNone, gdf]
LeerYPreparar(a) ==
    IF a.estado # "ok" THEN [esNone |-> TRUE, gdf |-> << >>]
    ELSE IF Len(a.feats) = 0 THEN [esNone |-> TRUE, gdf |-> << >>]
    ELSE [esNone |-> FALSE, gdf |-> PrepararTodos(a.feats)]

CachePrepVacio == [lleno |-> FALSE, esNone |-> FALSE, gdf |-> << >>]

\* The memoized function: the value returned and the cache after the call
CargarYPrepararDatos(cache, a) ==
    IF cache.lleno
    THEN [val |-> [esNone |-> cache.esNone, gdf |-> cache.gdf], cache |-> cache,
          hit |-> TRUE]
    ELSE LET v == LeerYPreparar(a)
         IN [val |-> v,
             cache |-> [lleno |-> TRUE, esNone |-> v.esNone, gdf |-> v.gdf],
             hit |-> FALSE]

----------------------------------------------------------------------------
\* get_db_connection

\* create_engine: one more engine open
CreateEngine(n) == n + 1

\* Variant: the engine is disposed on the normal exit only
DisposeSoloSinError(n, raised) == IF raised THEN n ELSE n - 1

\* finally: engine.dispose(), whether the body raised or not
Dispose(n, raised) == n - 1

----------------------------------------------------------------------------
\* cargar_a_postgis

\* Outcomes of the write: it completes, the connection is refused, or it fails
\* after the replace has begun
WriteOutcomes(up) == IF up THEN {"ok", "mid_fail"} ELSE {"connect_fail"}

\* Variant: the drop of the old table is committed before the inserts, so a
\* write failing part-way leaves no table
ToPostgisNoAtomico(t, gdf, outcome) ==
    IF outcome = "ok" THEN [existe |-> TRUE, filas |-> gdf]
    ELSE IF outcome = "mid_fail" THEN [existe |-> FALSE, filas |-> << >>]
    ELSE t

\* Variant: if_exists='append'
ToPostgisAppend(t, gdf, outcome) ==
    IF outcome = "ok" THEN [existe |-> TRUE, filas |-> t.filas \o gdf] ELSE t

\* gdf.to_postgis(if_exists='replace'): geopandas runs the drop, the create and
\* the inserts in one transaction of the engine, which PostgreSQL rolls back
\* as a whole when a step fails
ToPostgis(t, gdf, outcome) ==
    IF outcome = "ok" THEN [existe |-> TRUE, filas |-> gdf] ELSE t

\* cargar_a_postgis: the table, the engines left open, and the value returned
CargarAPostgis(t, gdf, outcome, n) ==
    LET raised == outcome # "ok"
    IN [tabla |-> ToPostgis(t, gdf, outcome),
        engines |-> Dispose(CreateEngine(n), raised),
        ok |-> ~raised]

----------------------------------------------------------------------------
\* obtener_datos_filtrados

\* Variant: the two recognized labels are mapped the wrong way round
ConsultaCruzada(f) ==
    IF Truthy(f) /\ f # "Todos"
    THEN [where |-> TRUE,
          fclass |-> IF f = "Bosques" THEN "nature_reserve" ELSE "forest"]
    ELSE [where |-> FALSE, fclass |-> ""]

\* The WHERE clause the call builds: whether there is one, and its parameter
Consulta(f) ==
    IF Truthy(f) /\ f # "Todos"
    THEN [where |-> TRUE,
          fclass |-> IF f = "Bosques" THEN "forest" ELSE "nature_reserve"]
    ELSE [where |-> FALSE, fclass |-> ""]

\* SELECT fclass, name, superficie_ha, ST_Transform(geometry, SRID_MAPA)
Seleccionar(r) ==
    [fclass |-> r.fclass, name |-> r.name, superficie_ha |-> r.superficie_ha,
     geometry |-> [forma |-> r.geometry.forma, srid |-> SRID_MAPA]]

\* gpd.read_postgis on an existing table
ReadPostgis(filas, q) ==
    LET Cumple(r) == (~q.where) \/ r.fclass = q.fclass
        sel == SelectSeq(filas, Cumple)
    IN [i \in 1..Len(sel) |-> Seleccionar(sel[i])]

\* What makes the read raise, if anything
CausaError(t, up) ==
    IF ~up THEN "unreachable"
    ELSE IF ~t.existe THEN "schema_missing"
    ELSE "none"

\* Body of obtener_datos_filtrados: the frame returned
ObtenerBody(t, up, f) ==
    IF CausaError(t, up) # "none" THEN GeoDataFrame
    ELSE [cols |-> TRUE, filas |-> ReadPostgis(t.filas, Consulta(f))]

CacheObtVacio == [a \in Args |-> [lleno |-> FALSE, frame |-> GeoDataFrame]]

\* The memoized function: the frame returned and the cache after the call
ObtenerDatosFiltrados(cache, t, up, f) ==
    IF cache[f].lleno
    THEN [frame |-> cache[f].frame, cache |-> cache, hit |-> TRUE]
    ELSE LET fr == ObtenerBody(t, up, f)
         IN [frame |-> fr,
             cache |-> [cache EXCEPT ![f] = [lleno |-> TRUE, frame |-> fr]],
             hit |-> FALSE]

\* Engines left open by one execution of the body
EnginesTrasLeer(n, t, up) == Dispose(CreateEngine(n), CausaError(t, up) # "none")

\* How the last call ended
ResultadoLlamada(r, t, up) ==
    IF r.hit THEN "obt_hit"
    ELSE IF CausaError(t, up) = "none" THEN "obt_ok"
    ELSE IF CausaError(t, up) = "schema_missing" THEN "obt_schema_missing"
    ELSE "obt_unreachable"

----------------------------------------------------------------------------
\* Initial state: a fresh process, nothing ingested yet

Init ==
    /\ archivo \in Archivos
    /\ tabla = [existe |-> FALSE, filas |-> << >>]
    /\ storeUp \in BOOLEAN
    /\ cache_prep = CachePrepVacio
    /\ cache_obt = CacheObtVacio
    /\ data_to_display = GeoDataFrame
    /\ current_filter = "Todos"
    /\ arg = None
    /\ ret = GeoDataFrame
    /\ engines = 0
    /\ last = "init"

----------------------------------------------------------------------------
\* Sidebar handlers

\* Variant: the load is not followed by a clear
SinLimpiar(cp, co) == [prep |-> cp, obt |-> co]

\* st.cache_data.clear() after the load of the 'Cargar' button
LimpiarTrasCarga(cp, co) == [prep |-> CachePrepVacio, obt |-> CacheObtVacio]

\* The 'Cargar' button
Cargar ==
    LET p == CargarYPrepararDatos(cache_prep, archivo)
    IN IF p.val.esNone
       THEN /\ cache_prep' = p.cache
            /\ last' = IF p.hit THEN "cargar_none_hit" ELSE "cargar_none"
            /\ UNCHANGED << archivo, tabla, storeUp, cache_obt, data_to_display,
                            current_filter, arg, ret, engines >>
       ELSE \E outcome \in WriteOutcomes(storeUp) :
              LET w == CargarAPostgis(tabla, p.val.gdf, outcome, engines)
                  c == LimpiarTrasCarga(p.cache, cache_obt)
              IN /\ tabla' = w.tabla
                 /\ engines' = w.engines
                 /\ cache_prep' = c.prep
                 /\ cache_obt' = c.obt
                 /\ last' = IF w.ok THEN "cargar_ok" ELSE "cargar_store_fail"
                 /\ UNCHANGED << archivo, storeUp, data_to_display,
                                 current_filter, arg, ret >>

\* The 'Limpiar cache' button
LimpiarCache ==
    /\ cache_prep' = CachePrepVacio
    /\ cache_obt' = CacheObtVacio
    /\ last' = "limpiar"
    /\ UNCHANGED << archivo, tabla, storeUp, data_to_display, current_filter,
                    arg, ret, engines >>

\* Options of the selectbox
FiltroOpciones == << "Todos" >> \o ZONAS_VERDES

\* The argument the 'Visualizar' button passes for a selection
ArgDeSeleccion(sel) == IF sel # "Todos" THEN sel ELSE None

\* One call of obtener_datos_filtrados(f)
Llamar(f) ==
    LET r == ObtenerDatosFiltrados(cache_obt, tabla, storeUp, f)
    IN /\ cache_obt' = r.cache
       /\ arg' = f
       /\ ret' = r.frame
       /\ engines' = IF r.hit THEN engines
                     ELSE EnginesTrasLeer(engines, tabla, storeUp)
       /\ last' = ResultadoLlamada(r, tabla, storeUp)

\* The 'Visualizar' button with selection sel
Visualizar(sel) ==
    /\ Llamar(ArgDeSeleccion(sel))
    /\ data_to_display' = ret'
    /\ current_filter' = sel
    /\ UNCHANGED << archivo, tabla, storeUp, cache_prep >>

\* A caller of obtener_datos_filtrados other than the sidebar
Consultar(f) ==
    /\ Llamar(f)
    /\ UNCHANGED << archivo, tabla, storeUp, cache_prep, data_to_display,
                    current_filter >>

----------------------------------------------------------------------------
\* Environment

\* DATA_FILE is replaced, removed or damaged on disk
CambiarArchivo ==
    /\ \E a \in Archivos : a # archivo /\ archivo' = a
    /\ last' = "entorno"
    /\ UNCHANGED << tabla, storeUp, cache_prep, cache_obt, data_to_display,
                    current_filter, arg, ret, engines >>

\* The store goes down or comes back
CambiarStore ==
    /\ storeUp' = ~storeUp
    /\ last' = "entorno"
    /\ UNCHANGED << archivo, tabla, cache_prep, cache_obt, data_to_display,
                    current_filter, arg, ret, engines >>

Next ==
    \/ Cargar
    \/ LimpiarCache
    \/ \E i \in 1..Len(FiltroOpciones) : Visualizar(FiltroOpciones[i])
    \/ CambiarArchivo
    \/ CambiarStore

Spec == Init /\ [][Next]_vars

----------------------------------------------------------------------------
\* obtener_datos_filtrados called against a store in a given state: the table
\* any ingestion can have left (or none), the store up or down

TablasPosibles ==
    { [existe |-> FALSE, filas |-> << >>] }
    \cup { [existe |-> TRUE, filas |-> PrepararTodos(d)] :
             d \in { x \in Datasets : Len(x) > 0 } }

InitConsulta ==
    /\ archivo = [estado |-> "missing", feats |-> << >>]
    /\ tabla \in TablasPosibles
    /\ storeUp \in BOOLEAN
    /\ cache_prep = CachePrepVacio
    /\ cache_obt = CacheObtVacio
    /\ data_to_display = GeoDataFrame
    /\ current_filter = "Todos"
    /\ arg = None
    /\ ret = GeoDataFrame
    /\ engines = 0
    /\ last = "init"

NextConsulta == \E f \in Args : Consultar(f)

SpecConsulta == InitConsulta /\ [][NextConsulta]_vars

----------------------------------------------------------------------------
\* Vocabulary of the properties

Abs(x) == IF x < 0 THEN -x ELSE x

\* What identifies a row: its attributes and the polygon of its geometry
Clave(r) == << r.fclass, r.name, r.superficie_ha, r.geometry.forma >>

ClavesDe(filas) == { Clave(filas[i]) : i \in 1..Len(filas) }

\* The frame holds exactly the rows of t that satisfy Cumple, none twice
ExactamenteLasFilas(frame, t, Cumple(_)) ==
    LET idx == { i \in 1..Len(t.filas) : Cumple(t.filas[i]) }
    IN /\ frame.cols
       /\ Len(frame.filas) = Cardinality(idx)
       /\ ClavesDe(frame.filas) = { Clave(t.filas[i]) : i \in idx }

EsForest(r) == r.fclass = "forest"
EsReserva(r) == r.fclass = "nature_reserve"
Cualquiera(r) == TRUE

\* What a call with a recognized argument is specified to return from table t
RespuestaCorrecta(frame, t, f) ==
    CASE f = "Bosques"            -> ExactamenteLasFilas(frame, t, EsForest)
      [] f = "Reservas naturales" -> ExactamenteLasFilas(frame, t, EsReserva)
      [] OTHER                    -> ExactamenteLasFilas(frame, t, Cualquiera)

ArgsReconocidos == { None, "Todos", "Bosques", "Reservas naturales" }

\* The last operation was a call of obtener_datos_filtrados
UltimaEsLlamada ==
    last \in { "obt_hit", "obt_ok", "obt_schema_missing", "obt_unreachable" }

\* The last operation was a click on 'Cargar'
UltimaEsCarga ==
    last \in { "cargar_ok", "cargar_store_fail", "cargar_none", "cargar_none_hit" }

FuenteValida == archivo.estado = "ok" /\ Len(archivo.feats) > 0

SumaHa(filas) ==
    LET S[i \in 0..Len(filas)] ==
            IF i = 0 THEN 0 ELSE S[i-1] + filas[i].superficie_ha
    IN S[Len(filas)]

\* t tenths of a hectare is area square meters rounded to one decimal of a
\* hectare: no tenth is nearer
RedondeoDe(t, area) ==
    2 * Abs(t * HECTARES_PER_SQM - 10 * area) <= HECTARES_PER_SQM

\* The rounding holds of every area up to MaxArea
RedondeoEnRango == \A a \in 0..MaxArea : RedondeoDe(SuperficieHa(a), a)

\* The dataset of three polygons: forest 20,000 m2, nature_reserve 15,000 m2,
\* residential 5,000 m2
Ejemplo == SubSeq(Rasgos, 1, 3)

----------------------------------------------------------------------------
\* C1: whatever the table holds, a call with 'Bosques' returns exactly the
\* stored rows of class forest, a call with 'Reservas naturales' exactly those
\* of class nature_reserve, and a call with 'Todos' or with no filter returns
\* every row of the table.
C1_FiltroCorrecto ==
    (UltimaEsLlamada /\ storeUp /\ tabla.existe /\ arg \in ArgsReconocidos)
        => RespuestaCorrecta(ret, tabla, arg)

C1_Witness ==
    /\ UltimaEsLlamada /\ storeUp /\ tabla.existe
    /\ arg = "Bosques"
    /\ Len(ret.filas) >= 1
    /\ Len(ret.filas) < Len(tabla.filas)

\* C2: a call with a label that is neither 'Todos' nor a recognized label
\* returns no stored row (it reports an error or returns an empty set).
C2_EtiquetaDesconocidaSinFilas ==
    (UltimaEsLlamada /\ arg \notin ArgsReconocidos) => Empty(ret)

\* C3: the value a retrieval returns tells apart the table that does not exist
\* yet, the unreachable store, and the successful query with no matching row;
\* a retrieval before any ingestion is not what an unreachable store or an
\* empty success would have returned.
C3_CasosDistinguibles ==
    (UltimaEsLlamada /\ CausaError(tabla, storeUp) = "schema_missing")
        => /\ ret # ObtenerBody(tabla, FALSE, arg)
           /\ \A t \in TablasPosibles :
                 (t.existe /\ Empty(ObtenerBody(t, TRUE, arg)))
                     => ret # ObtenerBody(t, TRUE, arg)

\* C4: an ingestion attempt that fails (source missing, unreadable or empty,
\* or the write failing, part-way included) leaves the stored table as it was.
C4_FalloNoTocaTabla ==
    [][ last' \in { "cargar_store_fail", "cargar_none", "cargar_none_hit" }
            => tabla' = tabla ]_vars

C4_Witness ==
    /\ last = "cargar_store_fail"
    /\ storeUp
    /\ tabla.existe
    /\ FuenteValida
    /\ Len(tabla.filas) # Len(archivo.feats)

\* C5: a retrieval issued while the store is reachable returns the rows,
\* restricted by its filter, of the most recent successful ingestion, never a
\* result memoized from an earlier state.
C5_LeeLoUltimoIngerido ==
    (UltimaEsLlamada /\ storeUp /\ tabla.existe)
        => RespuestaCorrecta(data_to_display, tabla, ArgDeSeleccion(current_filter))

\* C6: a successful ingestion by 'Cargar' is followed, before any later
\* retrieval, by the invalidation of every memoized retrieval, and no memoized
\* result predates the table it is served for.
C6_InvalidaTrasCarga ==
    /\ last = "cargar_ok" =>
          \A a \in Args : ~cache_obt[a].lleno
    /\ \A a \in Args :
          (cache_obt[a].lleno /\ cache_obt[a].frame.cols)
              => RespuestaCorrecta(cache_obt[a].frame, tabla, a)

C6_Witness ==
    /\ last = "cargar_ok"
    /\ data_to_display.cols
    /\ ~ RespuestaCorrecta(data_to_display, tabla, ArgDeSeleccion(current_filter))
    /\ \A a \in Args : ~cache_obt[a].lleno

\* C7: after a successful ingestion the table holds exactly the normalized
\* features of the source that ingestion read, and no row of an earlier
\* generation; ingesting the same source again leaves the same table.
C7_ReemplazoTotal ==
    last = "cargar_ok" =>
        /\ FuenteValida
        /\ tabla.existe
        /\ Len(tabla.filas) = Len(archivo.feats)
        /\ \A i \in 1..Len(tabla.filas) :
              /\ tabla.filas[i].fclass = archivo.feats[i].fclass
              /\ tabla.filas[i].name = archivo.feats[i].name
              /\ tabla.filas[i].geometry.forma = archivo.feats[i].geometry.forma
              /\ tabla.filas[i].geometry.srid = SRID_PROYECTO

C7_Witness ==
    /\ last = "cargar_ok"
    /\ data_to_display.cols
    /\ current_filter = "Todos"
    /\ Len(data_to_display.filas) > Len(tabla.filas)

\* C8: once a store operation has returned, normally or by an exception, the
\* engine it created has been disposed: no engine stays open.
C8_EnginesLiberados == engines = 0

C8_Witness ==
    /\ last \in { "cargar_store_fail", "obt_unreachable", "obt_schema_missing" }
    /\ engines = 0

\* C9: the stored superficie_ha of every feature is its planar area in square
\* meters divided by 10,000 and rounded to one decimal, computed at ingestion
\* and not read from the file, and retrieval returns it unchanged; the polygons
\* of 20,000, 15,000 and 5,000 square meters of classes forest, nature_reserve
\* and residential give one 'forest' feature of 2.0 ha and three features
\* summing to 4.0 ha.
C9_SuperficieHa ==
    /\ RedondeoEnRango
    /\ \A i \in 1..Len(tabla.filas) :
          RedondeoDe(tabla.filas[i].superficie_ha,
                     AreaPlanar(tabla.filas[i].geometry.forma))
    /\ \A i \in 1..Len(data_to_display.filas) :
          RedondeoDe(data_to_display.filas[i].superficie_ha,
                     AreaPlanar(data_to_display.filas[i].geometry.forma))
    /\ (last = "obt_ok" /\ ClavesDe(tabla.filas) = ClavesDe(PrepararTodos(Ejemplo))
            /\ Len(tabla.filas) = 3)
          => /\ current_filter = "Bosques" =>
                   /\ Len(data_to_display.filas) = 1
                   /\ data_to_display.filas[1].superficie_ha = 20
             /\ current_filter = "Todos" =>
                   /\ Len(data_to_display.filas) = 3
                   /\ SumaHa(data_to_display.filas) = 40

C9_Witness ==
    /\ last = "obt_ok"
    /\ archivo.estado = "ok" /\ archivo.feats = Ejemplo
    /\ Len(tabla.filas) = 3
    /\ current_filter = "Todos"
    /\ SumaHa(data_to_display.filas) = 40

\* C10: every click on 'Cargar' reads the source again, so a click made when
\* the source is readable and not empty and the store is reachable gets to the
\* write, and writes the table unless the store fails the write, whatever
\* failed before and without a cache clear in between.
C10_ReintentoRelee ==
    (UltimaEsCarga /\ FuenteValida /\ storeUp)
        => /\ last \in { "cargar_ok", "cargar_store_fail" }
           /\ last = "cargar_ok" =>
                 ClavesDe(tabla.filas) = ClavesDe(PrepararTodos(archivo.feats))

====
